---- MODULE Spec2Model ----
(***************************************************************************)
(* Lexicon Stream: the snapshot builder (snapshot.js: fetchState,          *)
(* buildEvents, buildStats, main) and the query server (server.js).        *)
(*                                                                         *)
(* Conventions of the model                                                *)
(*  - A JavaScript property that is absent (undefined) is the value        *)
(*    Undefined; generation numbers, use counts and counters are >= 0.     *)
(*  - Object.entries(state.words) is a sequence of entries in the map's    *)
(*    iteration order; a word text is an integer identifier.               *)
(*  - Fitness is an integer (the comparisons of the code are all the model *)
(*    needs of it).                                                        *)
(*  - The payload fields meaning, category, parts, meanings, from, to are  *)
(*    copied by the code and never read; they are left out.                *)
(***************************************************************************)
EXTENDS Integers, Sequences, FiniteSets, TLC

VARIABLES
    state,        \* main: the snapshot `state` (snapshot.js:160)
    events,       \* the array returned by buildEvents
    origin,       \* origin[i]: index, in push order, of the event at events[i]
    stats,        \* the record returned by buildStats
    pc,           \* position of the build process (main)
    res,          \* the response of fetch() in the running build
    streamFile,   \* content of stream.json
    snapshotDir,  \* generations with a file snapshots/gen-<g>.json
    fileAtStart,  \* content of stream.json when the running build started
    dirAtStart,   \* snapshotDir when the running build started
    clock,        \* wall clock: number of builds started so far
    lastWritten,  \* clock of the last build that completed writing stream.json
    reply,        \* last HTTP response of GET /api/stream
    requests      \* number of requests served

vars == <<state, events, origin, stats, pc, res, streamFile, snapshotDir,
          fileAtStart, dirAtStart, clock, lastWritten, reply, requests>>

---------------------------------------------------------------------------
(* Bounds *)

MaxGen == 1          \* generation numbers are 0..MaxGen
MaxEntities == 3     \* entries of a snapshot drawn for buildEvents
MaxStatEntities == 2 \* entries of a snapshot drawn for buildStats
MaxUses == 1         \* use counts are 0..MaxUses
MaxFit == 1          \* fitness values are -MaxFit..MaxFit
MaxCount == 2        \* stats counters are 0..MaxCount
MaxBuilds == 2       \* builds started
MaxRequests == 2     \* requests served

---------------------------------------------------------------------------
(* JavaScript values *)

Undefined == -1

\* ToBoolean of a number or undefined: undefined and 0 are falsy
Truthy(x) == x # Undefined /\ x # 0

\* x || y
JsOr(x, y) == IF Truthy(x) THEN x ELSE y

Gens == 0..MaxGen

RECURSIVE SumSeq(_)
SumSeq(s) == IF s = <<>> THEN 0 ELSE Head(s) + SumSeq(Tail(s))

RECURSIVE MaxSeq(_)
MaxSeq(s) == IF Len(s) = 1 THEN s[1]
             ELSE LET m == MaxSeq(Tail(s)) IN IF s[1] >= m THEN s[1] ELSE m

---------------------------------------------------------------------------
(* buildEvents, snapshot.js:26-97 *)

\* snapshot.js:31-42
WordBirths(s) ==
    [i \in 1..Len(s.words) |->
        [type |-> "birth", gen |-> s.words[i].born, word |-> s.words[i].word,
         fitness |-> s.words[i].fitness,
         age |-> s.generation - s.words[i].born, alive |-> TRUE]]

\* snapshot.js:46-53
ExtinctBirth(ext) ==
    [type |-> "birth", gen |-> ext.born, word |-> ext.word, alive |-> FALSE]

\* snapshot.js:56   ext.died || ext.born + 1
DeathGen(ext) == JsOr(ext.died, ext.born + 1)

\* snapshot.js:54-63
ExtinctDeath(ext) ==
    [type |-> "death", gen |-> DeathGen(ext), word |-> ext.word,
     lifespan |-> DeathGen(ext) - ext.born,
     uses |-> JsOr(ext.uses, 0),
     stillborn |-> (JsOr(ext.uses, 0) = 0 /\ DeathGen(ext) - ext.born <= 5)]

\* snapshot.js:45-64: per record a birth, then a death
ExtinctEventsNoBirth(s) ==
    [i \in 1..Len(s.extinct) |-> ExtinctDeath(s.extinct[i])]
ExtinctEvents(s) ==
    [i \in 1..(2 * Len(s.extinct)) |->
        IF i % 2 = 1 THEN ExtinctBirth(s.extinct[(i + 1) \div 2])
        ELSE ExtinctDeath(s.extinct[i \div 2])]

\* snapshot.js:67-76
CompoundEvents(s) ==
    [i \in 1..Len(s.compounds) |->
        [type |-> "compound", gen |-> s.compounds[i].born,
         word |-> s.compounds[i].word]]

\* snapshot.js:79-87
ShiftEvents(s) ==
    [i \in 1..Len(s.sound_shifts) |->
        [type |-> "shift", gen |-> s.sound_shifts[i].gen]]

\* the array before the sort, in push order
RawEvents(s) ==
    WordBirths(s) \o ExtinctEvents(s) \o CompoundEvents(s) \o ShiftEvents(s)

\* snapshot.js:90   typePriority[t], undefined for a type not in the table
typePriority(t) ==
    CASE t = "death" -> 0
      [] t = "shift" -> 1
      [] t = "compound" -> 2
      [] t = "birth" -> 3
      [] OTHER -> Undefined

\* snapshot.js:93   typePriority[a.type] || 5
PriorityNullish(t) == IF typePriority(t) # Undefined THEN typePriority(t) ELSE 5
Priority(t) == JsOr(typePriority(t), 5)

\* snapshot.js:91-94   the comparator
CompareGenDescending(a, b) ==
    IF a.gen # b.gen THEN b.gen - a.gen
    ELSE Priority(a.type) - Priority(b.type)
Compare(a, b) ==
    IF a.gen # b.gen THEN a.gen - b.gen
    ELSE Priority(a.type) - Priority(b.type)

\* Array.prototype.sort (stable): the indices 1..n in sorted order, where
\* cmp[i, j] is the comparator's result on elements i and j. Index k is
\* inserted behind every index already placed that does not compare
\* greater than it.
RECURSIVE InsertIdx(_, _, _)
InsertIdx(cmp, p, k) ==
    IF p = <<>> THEN <<k>>
    ELSE IF cmp[p[Len(p)], k] > 0
         THEN InsertIdx(cmp, SubSeq(p, 1, Len(p) - 1), k) \o <<p[Len(p)]>>
         ELSE p \o <<k>>

RECURSIVE StableSort(_, _)
StableSort(cmp, n) ==
    IF n = 0 THEN <<>> ELSE InsertIdx(cmp, StableSort(cmp, n - 1), n)

\* snapshot.js:91-94   events.sort(...)
SortPerm(raw) ==
    StableSort([i \in 1..Len(raw), j \in 1..Len(raw) |-> Compare(raw[i], raw[j])],
               Len(raw))

\* snapshot.js:26-97
buildEvents(s) ==
    LET raw == RawEvents(s)
        p == SortPerm(raw)
    IN [i \in 1..Len(raw) |-> raw[p[i]]]

---------------------------------------------------------------------------
(* buildStats, snapshot.js:99-156 *)

Null == [null |-> TRUE]
NaN == [nan |-> TRUE]
NoStats == [absent |-> TRUE]

\* state.stats?.field
Opt(obj, field) == IF obj = NoStats THEN Undefined ELSE obj[field]

\* (n/d).toFixed(1) for d > 0: the text of the decimal with one fraction
\* digit that is nearest to n/d, the larger magnitude on a tie; the text is
\* held as its value in tenths
ToFixed1(n, d) ==
    IF n >= 0 THEN [tenths |-> (20 * n + d) \div (2 * d)]
    ELSE [tenths |-> 0 - ((20 * (0 - n) + d) \div (2 * d))]

\* snapshot.js:112-114
HasDied(e) == Truthy(e.died)
lifespans(s) ==
    LET kept == SelectSeq(s.extinct, HasDied)
    IN [i \in 1..Len(kept) |-> kept[i].died - kept[i].born]

\* snapshot.js:115-117 and 141
avgLifespan(s) ==
    IF Len(lifespans(s)) > 0
    THEN ToFixed1(SumSeq(lifespans(s)), Len(lifespans(s)))
    ELSE ToFixed1(0, 1)

\* snapshot.js:118
maxLifespan(s) == IF Len(lifespans(s)) > 0 THEN MaxSeq(lifespans(s)) ELSE 0

\* snapshot.js:119
IsStillborn(e) ==
    JsOr(e.uses, 0) = 0 /\ (JsOr(e.died, e.born + 1) - e.born) <= 5
stillbornCount(s) == Len(SelectSeq(s.extinct, IsStillborn))

\* snapshot.js:122-126
ByAgeDescending(a, b) == b.age - a.age
elder(s) ==
    LET mapped == [i \in 1..Len(s.words) |->
                      [word |-> s.words[i].word,
                       age |-> s.generation - s.words[i].born,
                       fitness |-> s.words[i].fitness]]
        p == StableSort([i \in 1..Len(mapped), j \in 1..Len(mapped) |->
                            ByAgeDescending(mapped[i], mapped[j])], Len(mapped))
    IN IF Len(mapped) > 0 THEN mapped[p[1]] ELSE Null

\* snapshot.js:127-129   the reduction from the sentinel { fitness: -1 }
RECURSIVE ReduceFittest(_, _)
ReduceFittest(words, best) ==
    IF words = <<>> THEN best
    ELSE ReduceFittest(Tail(words),
            IF Head(words).fitness > best.fitness
            THEN [word |-> Head(words).word, fitness |-> Head(words).fitness]
            ELSE best)

\* snapshot.js:127-129 and 146
fittest(s) ==
    IF Len(s.words) > 0
    THEN ReduceFittest(s.words, [word |-> Undefined, fitness |-> -1])
    ELSE Null

\* snapshot.js:138-140
mortalityRate(s) ==
    IF Opt(s.stats, "total_generated") # Undefined
       /\ Opt(s.stats, "total_generated") > 0
    THEN IF s.stats.total_extinct = Undefined THEN NaN
         ELSE ToFixed1(s.stats.total_extinct * 100, s.stats.total_generated)
    ELSE [number |-> 0]

\* snapshot.js:147-154
ByFitnessDescending(a, b) == b.fitness - a.fitness
livingWords(s) ==
    LET mapped == [i \in 1..Len(s.words) |->
                      [word |-> s.words[i].word,
                       age |-> s.generation - s.words[i].born,
                       fitness |-> s.words[i].fitness]]
        p == StableSort([i \in 1..Len(mapped), j \in 1..Len(mapped) |->
                            ByFitnessDescending(mapped[i], mapped[j])], Len(mapped))
    IN [i \in 1..Len(mapped) |-> mapped[p[i]]]

\* snapshot.js:99-156
buildStats(s) ==
    [generation |-> s.generation,
     population |-> Len(s.words),
     totalBorn |-> JsOr(Opt(s.stats, "total_generated"), 0),
     totalDead |-> JsOr(Opt(s.stats, "total_extinct"), 0),
     totalCompounds |-> Len(s.compounds),
     totalShifts |-> JsOr(Opt(s.stats, "total_shifts"), 0),
     mortalityRate |-> mortalityRate(s),
     avgLifespan |-> avgLifespan(s),
     maxLifespan |-> maxLifespan(s),
     stillbornCount |-> stillbornCount(s),
     elder |-> elder(s),
     fittest |-> fittest(s),
     livingWords |-> livingWords(s)]

---------------------------------------------------------------------------
(* Snapshots *)

Fits == (0 - MaxFit)..MaxFit
OptGens == {Undefined} \cup Gens
OptUses == {Undefined} \cup (0..MaxUses)
OptCounts == {Undefined} \cup (0..MaxCount)

\* extinct records 1 and 2 carry the same word (a word that was reborn),
\* which is also the first living word; later records carry other words
ExtinctWord(i) == (i + 1) \div 2

\* Object.entries(state.words) with k entries; the i-th key is word i
WordSeqs(k, fits) ==
    {[i \in 1..k |-> [word |-> i, born |-> f[i].born, fitness |-> f[i].fitness]] :
        f \in [1..k -> [born : Gens, fitness : fits]]}

ExtinctSeqs(k, uses) ==
    {[i \in 1..k |-> [word |-> ExtinctWord(i), born |-> f[i].born,
                      died |-> f[i].died, uses |-> f[i].uses]] :
        f \in [1..k -> [born : Gens, died : OptGens, uses : uses]]}

CompoundSeqs(k) ==
    {[i \in 1..k |-> [word |-> i, born |-> f[i]]] : f \in [1..k -> Gens]}

ShiftSeqs(k) ==
    {[i \in 1..k |-> [gen |-> f[i]]] : f \in [1..k -> Gens]}

StatsObjects ==
    {NoStats} \cup
    [total_generated : OptCounts, total_extinct : OptCounts,
     total_shifts : {Undefined}]

Shapes(n) ==
    {t \in (0..n) \X (0..n) \X (0..n) \X (0..n) : t[1] + t[2] + t[3] + t[4] <= n}

\* the snapshot object
Snapshot(w, e, c, sh, st) ==
    [generation |-> MaxGen, words |-> w, extinct |-> e, compounds |-> c,
     sound_shifts |-> sh, stats |-> st]

---------------------------------------------------------------------------
(* The files and the HTTP exchange, at rest *)

Absent == [file |-> "absent"]
Truncated == [file |-> "truncated"]
NoReply == [status |-> 0]

AtRest ==
    /\ res = Null
    /\ streamFile = Absent
    /\ snapshotDir = {}
    /\ fileAtStart = Absent
    /\ dirAtStart = {}
    /\ clock = 0
    /\ lastWritten = 0
    /\ reply = NoReply
    /\ requests = 0

RestUnchanged ==
    UNCHANGED <<res, streamFile, snapshotDir, fileAtStart, dirAtStart, clock,
                lastWritten, reply, requests>>

---------------------------------------------------------------------------
(* buildEvents applied to a snapshot of at most MaxEntities entries *)

InitEvents ==
    /\ \E t \in Shapes(MaxEntities) :
          \E w \in WordSeqs(t[1], {0}), e \in ExtinctSeqs(t[2], {Undefined}),
             c \in CompoundSeqs(t[3]), sh \in ShiftSeqs(t[4]) :
              state = Snapshot(w, e, c, sh, NoStats)
    /\ events = <<>>
    /\ origin = <<>>
    /\ stats = Null
    /\ pc = "call"
    /\ AtRest

BuildEvents ==
    /\ pc = "call"
    /\ events' = buildEvents(state)
    /\ origin' = SortPerm(RawEvents(state))
    /\ pc' = "return"
    /\ UNCHANGED <<state, stats>>
    /\ RestUnchanged

NextEvents == BuildEvents

SpecEvents == InitEvents /\ [][NextEvents]_vars

---------------------------------------------------------------------------
(* buildStats applied to a snapshot of at most MaxStatEntities living    *)
(* words and extinct records without counters, or to the counters alone   *)

InitStats ==
    /\ \/ \E t \in Shapes(MaxStatEntities) :
             /\ t[3] = 0 /\ t[4] = 0
             /\ \E w \in WordSeqs(t[1], Fits), e \in ExtinctSeqs(t[2], OptUses) :
                   state = Snapshot(w, e, <<>>, <<>>, NoStats)
       \/ \E st \in StatsObjects :
             state = Snapshot(<<>>, <<>>, <<>>, <<>>, st)
    /\ events = <<>>
    /\ origin = <<>>
    /\ stats = Null
    /\ pc = "call"
    /\ AtRest

BuildStats ==
    /\ pc = "call"
    /\ stats' = buildStats(state)
    /\ pc' = "return"
    /\ UNCHANGED <<state, events, origin>>
    /\ RestUnchanged

NextStats == BuildStats

SpecStats == InitStats /\ [][NextStats]_vars

---------------------------------------------------------------------------
(* The build process (snapshot.js main) and the query server (server.js) *)

\* what the state provider may answer
NetworkError == [error |-> "network"]
NotJson == [kind |-> "text"]
NoWords == [error |-> "unavailable"]     \* a JSON object without `words`

ProvidedSnapshots ==
    {[generation |-> g, words |-> w, extinct |-> <<>>, compounds |-> <<>>,
      sound_shifts |-> <<>>, stats |-> NoStats] :
        g \in Gens, w \in {<<>>, <<[word |-> 1, born |-> 0, fitness |-> 0]>>}}

Bodies ==
    {NotJson} \cup {[kind |-> "json", value |-> v] :
                        v \in {NoWords} \cup ProvidedSnapshots}

\* snapshot.js:172-177   the stream document; the timestamp is the clock
StreamDocument(s, ev, st) ==
    [file |-> "doc", generated |-> clock, generation |-> s.generation,
     stats |-> st, events |-> ev]

Init ==
    /\ state = Null
    /\ events = <<>>
    /\ origin = <<>>
    /\ stats = Null
    /\ pc = "idle"
    /\ AtRest

\* the scheduler runs `node snapshot.js`; builds are serialized
StartBuild ==
    /\ pc \in {"idle", "done", "exit1"}
    /\ clock < MaxBuilds
    /\ clock' = clock + 1
    /\ pc' = "fetch"
    /\ state' = Null
    /\ events' = <<>>
    /\ origin' = <<>>
    /\ stats' = Null
    /\ res' = Null
    /\ fileAtStart' = streamFile
    /\ dirAtStart' = snapshotDir
    /\ UNCHANGED <<streamFile, snapshotDir, lastWritten, reply, requests>>

\* snapshot.js:22, 191-194   fetch() rejects: main rejects, exit(1)
FetchRejects ==
    /\ pc = "fetch"
    /\ res' = NetworkError
    /\ pc' = "exit1"
    /\ UNCHANGED <<state, events, origin, stats, streamFile, snapshotDir,
                   fileAtStart, dirAtStart, clock, lastWritten, reply, requests>>

\* snapshot.js:22   fetch() resolves with a response of any status
FetchResolves ==
    /\ pc = "fetch"
    /\ \E ok \in BOOLEAN, body \in Bodies : res' = [ok |-> ok, body |-> body]
    /\ pc' = "json"
    /\ UNCHANGED <<state, events, origin, stats, streamFile, snapshotDir,
                   fileAtStart, dirAtStart, clock, lastWritten, reply, requests>>

\* snapshot.js:23, 160   res.json(): rejects on a body that is not JSON;
\* res.ok is not read
ResJson ==
    /\ pc = "json"
    /\ IF res.body = NotJson
       THEN pc' = "exit1" /\ UNCHANGED state
       ELSE pc' = "build" /\ state' = res.body.value
    /\ UNCHANGED <<events, origin, stats, res, streamFile, snapshotDir,
                   fileAtStart, dirAtStart, clock, lastWritten, reply, requests>>

\* snapshot.js:161-177   Object.keys(state.words) throws when words is
\* absent; otherwise the events and the statistics are built
Build ==
    /\ pc = "build"
    /\ IF state = NoWords
       THEN pc' = "exit1" /\ UNCHANGED <<events, origin, stats>>
       ELSE /\ events' = buildEvents(state)
            /\ origin' = SortPerm(RawEvents(state))
            /\ stats' = buildStats(state)
            /\ pc' = "write"
    /\ UNCHANGED <<state, res, streamFile, snapshotDir, fileAtStart,
                   dirAtStart, clock, lastWritten, reply, requests>>

\* snapshot.js:179   writeFileSync opens stream.json for writing: truncated
WriteStreamOpen ==
    /\ pc = "write"
    /\ streamFile' = Truncated
    /\ pc' = "writing"
    /\ UNCHANGED <<state, events, origin, stats, res, snapshotDir,
                   fileAtStart, dirAtStart, clock, lastWritten, reply, requests>>

\* snapshot.js:179   the document is on disk
WriteStreamDone ==
    /\ pc = "writing"
    /\ streamFile' = StreamDocument(state, events, stats)
    /\ lastWritten' = clock
    /\ pc' = "snapshot"
    /\ UNCHANGED <<state, events, origin, stats, res, snapshotDir,
                   fileAtStart, dirAtStart, clock, reply, requests>>

\* snapshot.js:179, 191-194   writeFileSync throws part-way: exit(1)
WriteStreamFails ==
    /\ pc = "writing"
    /\ pc' = "exit1"
    /\ UNCHANGED <<state, events, origin, stats, res, streamFile, snapshotDir,
                   fileAtStart, dirAtStart, clock, lastWritten, reply, requests>>

\* snapshot.js:183-188   the archival copy, keyed by generation
SaveSnapshot ==
    /\ pc = "snapshot"
    /\ snapshotDir' = snapshotDir \cup {state.generation}
    /\ pc' = "done"
    /\ UNCHANGED <<state, events, origin, stats, res, streamFile,
                   fileAtStart, dirAtStart, clock, lastWritten, reply, requests>>

\* server.js:10-17   JSON.parse(readFileSync(stream.json)) throws when the
\* file is absent or does not parse
StreamHandlerNoCatch(file) ==
    IF file.file = "doc" THEN [status |-> 200, body |-> file]
    ELSE [status |-> 200, body |-> Null]
StreamHandler(file) ==
    IF file.file = "doc" THEN [status |-> 200, body |-> file]
    ELSE [status |-> 500, body |-> [error |-> "No stream data available"]]

\* server.js:10-17   GET /api/stream
Request ==
    /\ requests < MaxRequests
    /\ reply' = StreamHandler(streamFile)
    /\ requests' = requests + 1
    /\ UNCHANGED <<state, events, origin, stats, pc, res, streamFile,
                   snapshotDir, fileAtStart, dirAtStart, clock, lastWritten>>

Next ==
    \/ StartBuild
    \/ FetchRejects
    \/ FetchResolves
    \/ ResJson
    \/ Build
    \/ WriteStreamOpen
    \/ WriteStreamDone
    \/ WriteStreamFails
    \/ SaveSnapshot
    \/ Request

Spec == Init /\ [][Next]_vars

---------------------------------------------------------------------------
(* Properties of the build and of the query server (Spec) *)

\* the fetch step failed: network error, non-OK status, or a body that is
\* not valid JSON
FetchFailed ==
    /\ res # Null
    /\ \/ res = NetworkError
       \/ (res # NetworkError /\ (~res.ok \/ res.body = NotJson))

\* C5: when the fetch step fails in any of the three ways, the build aborts
\* with a non-zero exit before any write: stream.json and the archival
\* files are as they were when the build started.
C5_FetchFailureWritesNothing ==
    FetchFailed =>
        /\ streamFile = fileAtStart
        /\ snapshotDir = dirAtStart
        /\ pc # "done"

\* C6: every request re-reads stream.json: status 500 with the error body
\* when the file is absent or does not parse; otherwise a 2xx response
\* whose body is the document now persisted, the one of the most recent
\* build that completed the write; never a 2xx with a null body.
C6_QueryAnswersFromFile ==
    [][requests' # requests =>
          IF streamFile.file = "doc"
          THEN /\ reply'.status = 200
               /\ reply'.body = streamFile
               /\ reply'.body.generated = lastWritten
          ELSE /\ reply'.status = 500
               /\ reply'.body = [error |-> "No stream data available"]]_vars

C6_Witness ==
    /\ requests = 2
    /\ reply.status = 200
    /\ reply.body.generated = 2
    /\ fileAtStart.file = "doc"
    /\ reply.body # fileAtStart

---------------------------------------------------------------------------
(* Properties of buildEvents (SpecEvents) *)

Returned == pc = "return"

\* position in events of the event pushed as number r
PosOf(r) == CHOOSE i \in 1..Len(origin) : origin[i] = r

\* push numbers of the birth and of the death of extinct record k
BirthIdx(k) == Len(state.words) + 2 * k - 1
DeathIdx(k) == Len(state.words) + 2 * k

IsBirth(e) == e.type = "birth"
IsLivingBirth(e) == e.type = "birth" /\ e.alive
IsExtinctBirth(e) == e.type = "birth" /\ ~e.alive
IsDeath(e) == e.type = "death"

\* C1: two events of the returned sequence with the same gen appear in the
\* order death, shift, compound, birth: no event of a later type precedes an
\* event of an earlier type with the same gen.
C1_TypePriorityWithinGen ==
    Returned =>
        \A i, j \in 1..Len(events) :
            (i < j /\ events[i].gen = events[j].gen)
                => typePriority(events[i].type) <= typePriority(events[j].type)

\* C2: the returned sequence is non-decreasing in gen and is a permutation
\* of the events pushed for the living words, the extinct records, the
\* compounds and the sound shifts.
C2_SortedPermutation ==
    Returned =>
        /\ \A i, j \in 1..Len(events) : i < j => events[i].gen <= events[j].gen
        /\ Len(events) = Len(RawEvents(state))
        /\ Len(origin) = Len(events)
        /\ {origin[i] : i \in 1..Len(origin)} = 1..Len(RawEvents(state))
        /\ \A i \in 1..Len(events) : events[i] = RawEvents(state)[origin[i]]

C2_Witness ==
    /\ Returned
    /\ Len(events) >= 4
    /\ \E i \in 1..Len(origin) : origin[i] # i
    /\ \E i, j \in 1..Len(events) : events[i].gen < events[j].gen
    /\ \E i, j \in 1..Len(events) : i # j /\ events[i].gen = events[j].gen

\* C3: one birth with alive = false and one death per extinct record
\* (per record, also when records carry the same word), one birth with
\* alive = true per living word; births = |words| + |extinct|,
\* deaths = |extinct|, total = |words| + 2|extinct| + |compounds| + |shifts|.
C3_EventCounts ==
    Returned =>
        /\ Len(SelectSeq(events, IsBirth)) = Len(state.words) + Len(state.extinct)
        /\ Len(SelectSeq(events, IsDeath)) = Len(state.extinct)
        /\ Len(SelectSeq(events, IsLivingBirth)) = Len(state.words)
        /\ Len(SelectSeq(events, IsExtinctBirth)) = Len(state.extinct)
        /\ Len(events) = Len(state.words) + 2 * Len(state.extinct)
                           + Len(state.compounds) + Len(state.sound_shifts)
        /\ \A k \in 1..Len(state.extinct) :
              /\ Cardinality({i \in 1..Len(events) : origin[i] = BirthIdx(k)}) = 1
              /\ Cardinality({i \in 1..Len(events) : origin[i] = DeathIdx(k)}) = 1
              /\ IsExtinctBirth(events[PosOf(BirthIdx(k))])
              /\ IsDeath(events[PosOf(DeathIdx(k))])
              /\ events[PosOf(BirthIdx(k))].word = state.extinct[k].word
              /\ events[PosOf(DeathIdx(k))].word = state.extinct[k].word
        /\ \A k \in 1..Len(state.words) :
              /\ Cardinality({i \in 1..Len(events) : origin[i] = k}) = 1
              /\ IsLivingBirth(events[PosOf(k)])
              /\ events[PosOf(k)].word = state.words[k].word

C3_Witness ==
    /\ Returned
    /\ Len(state.words) >= 1
    /\ Len(state.extinct) >= 2
    /\ state.extinct[1].word = state.extinct[2].word
    /\ state.extinct[1].word = state.words[1].word
    /\ Len(events) = 5

\* C4: the death event of an extinct record e has gen = e.died whenever e
\* carries a died value (any generation >= 0), gen = e.born + 1 only when
\* died is absent, and lifespan = that gen - e.born.
C4_DeathGenIsDied ==
    Returned =>
        \A k \in 1..Len(state.extinct) :
            LET e == state.extinct[k]
                d == events[PosOf(DeathIdx(k))]
            IN /\ d.type = "death"
               /\ e.died # Undefined => d.gen = e.died
               /\ e.died = Undefined => d.gen = e.born + 1
               /\ d.lifespan = d.gen - e.born

\* C10: when every extinct record has born >= 0 and no died or
\* died >= born, the birth of an extinct record is at an earlier position
\* than the death of the same record, also when died = born.
ConsistentExtinct(e) ==
    e.born >= 0 /\ (e.died = Undefined \/ e.died >= e.born)

---------------------------------------------------------------------------
(* Properties of buildStats (SpecStats) *)

\* t is n/d rounded to one decimal place, in tenths (d > 0)
IsRounded1(t, n, d) ==
    LET diff == 10 * n - t * d
    IN 2 * (IF diff >= 0 THEN diff ELSE 0 - diff) <= d

IsZeroRate(m) == m = [number |-> 0] \/ m = [tenths |-> 0]

FitnessOf(i) == state.words[i].fitness

\* C7: fittest is null exactly when words is empty; otherwise it names a
\* living word whose fitness is the maximum over the living words, the
\* first such word in iteration order, whatever the fitness values are.
C7_FittestIsFirstMaximum ==
    Returned =>
        /\ (stats.fittest = Null) <=> (Len(state.words) = 0)
        /\ Len(state.words) > 0 =>
              \E i \in 1..Len(state.words) :
                  /\ stats.fittest.word = state.words[i].word
                  /\ stats.fittest.fitness = FitnessOf(i)
                  /\ \A j \in 1..Len(state.words) : FitnessOf(j) <= FitnessOf(i)
                  /\ \A j \in 1..(i - 1) : FitnessOf(j) < FitnessOf(i)

\* C8: mortalityRate is 0 when the counters are absent or total_generated
\* is 0 or absent; otherwise it is totalDead/totalBorn*100 rounded to one
\* decimal place, totalDead and totalBorn being the reported totals (an
\* absent counter taken as 0).
C8_MortalityRate ==
    Returned =>
        IF Opt(state.stats, "total_generated") \in {Undefined, 0}
        THEN IsZeroRate(stats.mortalityRate)
        ELSE /\ stats.mortalityRate # NaN
             /\ stats.mortalityRate # [number |-> 0]
             /\ IsRounded1(stats.mortalityRate.tenths,
                           stats.totalDead * 100, stats.totalBorn)

\* C9: the lifespan statistics range over exactly the extinct records with
\* a recorded died: maxLifespan is the maximum of died - born over them (0
\* when there are none), avgLifespan their mean; a record without died
\* adds nothing to them and is still counted in stillbornCount when its
\* uses are 0 or absent.
Recorded == {k \in 1..Len(state.extinct) : state.extinct[k].died # Undefined}
Span(k) == state.extinct[k].died - state.extinct[k].born

RECURSIVE SumSpans(_)
SumSpans(K) ==
    IF K = {} THEN 0
    ELSE LET k == CHOOSE x \in K : TRUE IN Span(k) + SumSpans(K \ {k})

C9_LifespansOverRecordedDied ==
    Returned =>
        /\ Recorded = {} => stats.maxLifespan = 0
        /\ Recorded # {} =>
              /\ \E k \in Recorded : stats.maxLifespan = Span(k)
              /\ \A k \in Recorded : Span(k) <= stats.maxLifespan
        /\ Recorded = {} => stats.avgLifespan = [tenths |-> 0]
        /\ Recorded # {} =>
              IsRounded1(stats.avgLifespan.tenths, SumSpans(Recorded),
                         Cardinality(Recorded))
        /\ stats.stillbornCount =
              Cardinality({k \in 1..Len(state.extinct) :
                  /\ state.extinct[k].uses \in {Undefined, 0}
                  /\ (k \in Recorded => Span(k) <= 5)})

====
